---------------------------- MODULE Spec2Model ----------------------------
(***************************************************************************)
(* A model of the mcp-shell command-execution gateway (src/src/shell.ts):  *)
(* class ShellExecutor with its allow-list, its base directory and its     *)
(* process runner (spawnCommand), and the startup code that configures it. *)
(*                                                                         *)
(* Text.  Every JavaScript string is a sequence of pieces.  A piece plays  *)
(* the part of a character: the separators "/", ";", " " and "." are       *)
(* pieces of their own, and every other piece is a fixed run of ordinary   *)
(* characters ("app", "-other", "ls").  All inputs are built from pieces   *)
(* none of which is a concatenation of others, so two strings are equal    *)
(* exactly when their sequences are, and startsWith is sequence prefix.    *)
(***************************************************************************)
EXTENDS Integers, Sequences, FiniteSets, TLC

Slash == "/"
Dot == "."
Semi == ";"
Space == " "

(***************************************************************************)
(* String helpers of the JavaScript runtime.                               *)
(***************************************************************************)

\* String.prototype.startsWith
StartsWith(s, p) ==
    /\ Len(p) <= Len(s)
    /\ SubSeq(s, 1, Len(p)) = p

\* String.prototype.split(sep) for a one-piece separator: the segments
\* between the separators, empty segments kept.
RECURSIVE SplitOn(_, _)
SplitOn(s, sep) ==
    IF \A i \in 1..Len(s) : s[i] # sep
    THEN <<s>>
    ELSE LET k == CHOOSE i \in 1..Len(s) :
                     /\ s[i] = sep
                     /\ \A j \in 1..(i - 1) : s[j] # sep
         IN  <<SubSeq(s, 1, k - 1)>> \o SplitOn(SubSeq(s, k + 1, Len(s)), sep)

\* Array.prototype.join(sep), sep a string.
RECURSIVE Join(_, _)
Join(parts, sep) ==
    IF parts = <<>> THEN <<>>
    ELSE IF Len(parts) = 1 THEN parts[1]
    ELSE parts[1] \o sep \o Join(Tail(parts), sep)

\* Array.prototype.filter keeping the non-empty strings.
RECURSIVE NonEmpty(_)
NonEmpty(parts) ==
    IF parts = <<>> THEN <<>>
    ELSE IF parts[1] = <<>> THEN NonEmpty(Tail(parts))
    ELSE <<parts[1]>> \o NonEmpty(Tail(parts))

(***************************************************************************)
(* node:path (POSIX).                                                      *)
(***************************************************************************)

\* path.basename: trailing slashes dropped, then what follows the last slash.
RECURSIVE StripTrailingSlashes(_)
StripTrailingSlashes(p) ==
    IF p # <<>> /\ p[Len(p)] = Slash
    THEN StripTrailingSlashes(SubSeq(p, 1, Len(p) - 1))
    ELSE p

Basename(p) ==
    LET segs == SplitOn(StripTrailingSlashes(p), Slash)
    IN  segs[Len(segs)]

IsAbsolute(p) == p # <<>> /\ p[1] = Slash

\* normalizeString of node:path on the segments of an absolute path: empty
\* and "." segments are dropped, ".." removes the segment before it and is
\* dropped at the root.
RECURSIVE NormalizeSegs(_, _)
NormalizeSegs(segs, acc) ==
    IF segs = <<>> THEN acc
    ELSE LET s == segs[1]
         IN  IF s = <<>> \/ s = <<Dot>>
             THEN NormalizeSegs(Tail(segs), acc)
             ELSE IF s = <<Dot, Dot>>
             THEN NormalizeSegs(Tail(segs),
                                IF acc = <<>> THEN acc
                                ELSE SubSeq(acc, 1, Len(acc) - 1))
             ELSE NormalizeSegs(Tail(segs), Append(acc, s))

\* The process's current directory, which path.resolve falls back on.
ProcessCwd == <<Slash, "home">>

\* path.resolve(from, to): the arguments are taken right to left until the
\* path is absolute, process.cwd() last; the result is normalized.
PathResolve(from, to) ==
    LET joined == IF IsAbsolute(to) THEN to
                  ELSE IF IsAbsolute(from) THEN from \o <<Slash>> \o to
                  ELSE ProcessCwd \o <<Slash>> \o from \o <<Slash>> \o to
        segs == NormalizeSegs(SplitOn(joined, Slash), <<>>)
    IN  <<Slash>> \o Join(segs, <<Slash>>)


(***************************************************************************)
(* JavaScript values.  An optional value (undefined, or null for an exit   *)
(* code) is the empty set, a present value v the set {v}.  A number is     *)
(* [ms, half]: ms + 0.5 when half, so that non-integer timeouts exist.     *)
(***************************************************************************)
None == {}
Some(v) == {v}
Get(o) == CHOOSE v \in o : TRUE

Num(n) == [ms |-> n, half |-> FALSE]
NumHalf(n) == [ms |-> n, half |-> TRUE]
NumLess(a, b) == a.ms < b.ms \/ (a.ms = b.ms /\ ~a.half /\ b.half)
MathMin(a, b) == IF NumLess(b, a) THEN b ELSE a
NumTruthy(a) == a.ms # 0 \/ a.half
NumberIsInteger(a) == ~a.half

\* { ...a, ...b } on two string-keyed maps.
ObjectSpread(a, b) ==
    [k \in (DOMAIN a) \cup (DOMAIN b) |-> IF k \in DOMAIN b THEN b[k] ELSE a[k]]

(***************************************************************************)
(* The environment of the server process: the file system, the installed   *)
(* programs, and the command-line value of --baseDir.                      *)
(***************************************************************************)

\* The paths that exist (fs.existsSync is asked absolute, normalized paths
\* or paths relative to ProcessCwd).
ExistingPaths ==
    { <<Slash>>,
      <<Slash, "app">>,
      <<Slash, "app", Slash, "sub">>,
      <<Slash, "app", "-other">>,
      <<Slash, "home">>,
      <<Slash, "home", Slash, "app">>,
      <<Slash, "home", Slash, "app", Slash, "sub">> }

ExistsSync(p) == PathResolve(ProcessCwd, p) \in ExistingPaths

\* The programs the shell finds on PATH or at the path given.
InstalledPrograms == { <<"ls">>, <<"curl">>, <<"echo">>, <<"git">> }

\* values.baseDir: absent, absolute, absolute with a trailing slash, relative.
BaseDirArgs ==
    { None,
      Some(<<Slash, "app">>),
      Some(<<Slash, "app", Slash>>),
      Some(<<"app">>) }

\* const baseDirectory = values.baseDir || process.cwd()
BaseDirectoryOf(arg) ==
    IF arg # None /\ Get(arg) # <<>> THEN Get(arg) ELSE ProcessCwd

\* The constructor's seed allow-list, in insertion order.
SeedCommands ==
    << <<"npm">>, <<"yarn">>, <<"pnpm">>, <<"bun">>,
       <<"git">>,
       <<"ls">>, <<"dir">>, <<"find">>, <<"mkdir">>, <<"rmdir">>, <<"cp">>,
       <<"mv">>, <<"rm">>, <<"cat">>,
       <<"node">>, <<"python">>, <<"python3">>, <<"tsc">>, <<"eslint">>,
       <<"prettier">>,
       <<"make">>, <<"cargo">>, <<"go">>,
       <<"docker">>, <<"docker-compose">>,
       <<"echo">>, <<"touch">>, <<"grep">> >>

MaxTimeoutMs == 60000

(***************************************************************************)
(* The state.                                                              *)
(***************************************************************************)
CallIds == {1, 2}

VARIABLES
    allowedCommands,    \* ShellExecutor.allowedCommands: a Set, kept as its
                        \* members in insertion order
    baseDirectory,      \* ShellExecutor.baseDirectory
    maxTimeout,         \* ShellExecutor.maxTimeout
    shellEnvironment,   \* ShellExecutor.shellEnvironment
    call,               \* one record per executeCommand call slot
    listed,             \* the array getAllowedCommands last returned, in the
                        \* hands of its caller
    now,                \* the search server: Date.now()
    requestCount,       \* the search server: requestCount
    search,             \* the search server: the tool call in progress
    admitted            \* history: the times checkRateLimit returned at

shellVars ==
    <<allowedCommands, baseDirectory, maxTimeout, shellEnvironment, call>>

braveVars == <<now, requestCount, search, admitted>>

\* What no operation of the ShellExecutor touches.
outsideVars == <<listed, now, requestCount, search, admitted>>

vars == <<allowedCommands, baseDirectory, maxTimeout, shellEnvironment, call,
          listed, now, requestCount, search, admitted>>

\* A call slot before executeCommand is called in it.
IdleCall ==
    [ pc      |-> "idle",     \* idle | running | resolved | rejected
      req     |-> None,       \* the arguments of executeCommand
      opts    |-> None,       \* the options handed to spawn
      attempts |-> 0,         \* calls of spawn()
      spawns  |-> 0,          \* child processes created
      procs   |-> <<>>,       \* the programs the child shell ran, with argv
      child   |-> "none",     \* none | running | exited | failed | errored | closed
      exit    |-> None,       \* the exit code; None for death by signal
      stdout  |-> <<>>,       \* the closure's stdout accumulator
      stderr  |-> <<>>,       \* the closure's stderr accumulator
      timer   |-> "unset",    \* timeoutId: unset | pending | cleared | fired
      kills   |-> 0,          \* childProcess.kill() calls
      result  |-> None,       \* the value the promise settled with
      via     |-> "none",     \* history: the return or handler that settled
                              \* the call: noCommand | notAllowed |
                              \* workingDir | catch | close | error | timeout
      seen    |-> None,       \* history: the accumulators when it settled
      wrote   |-> [stdout |-> <<>>, stderr |-> <<>>],
                              \* history: the chunks the child wrote
      response |-> None ]     \* what the shell_execute handler answered

(***************************************************************************)
(* ShellExecutor: validation.                                              *)
(***************************************************************************)

\* createErrorResponse(message)
CreateErrorResponse(message) ==
    [ stdout   |-> <<>>,
      stderr   |-> message,
      exitCode |-> 1,
      success  |-> FALSE,
      error    |-> Some(message) ]

\* The message of the `!command` branch.
NoCommandMessage == <<"no command specified">>

\* Mutant of NotAllowedMessage: the list of the allowed commands is left out.
NotAllowedMessageNoList(command, allowed) ==
    <<"command not allowed: ">> \o command

\* The message of the allow-list branch: the command, then
\* Array.from(this.allowedCommands).join(', ').
NotAllowedMessage(command, allowed) ==
    <<"command not allowed: ">> \o command \o <<". allowed commands: ">>
        \o Join(allowed, <<", ">>)

\* Mutant of IsCommandAllowed: the list as it was at startup is consulted.
IsCommandAllowedAtStartup(command, allowed) ==
    \E i \in 1..Len(SeedCommands) : SeedCommands[i] = Basename(command)

\* isCommandAllowed(command): Set.has of path.basename(command)
IsCommandAllowed(command, allowed) ==
    \E i \in 1..Len(allowed) : allowed[i] = Basename(command)

OutsideBaseMessage(cwd) ==
    <<"working directory ">> \o cwd \o <<" is outside the base directory">>

NotFoundMessage(resolvedPath) ==
    <<"directory does not exist: ">> \o resolvedPath

\* The containment test of validateWorkingDirectory.
InsideBase(resolvedPath, base) == StartsWith(resolvedPath, base)

\* validateWorkingDirectory(cwd): the path it returns, or the message of the
\* Error it throws.
ValidateWorkingDirectory(cwd, base) ==
    IF cwd = None \/ Get(cwd) = <<>>
    THEN [ok |-> TRUE, path |-> base, error |-> <<>>]
    ELSE LET resolvedPath == PathResolve(base, Get(cwd))
         IN  IF ~InsideBase(resolvedPath, base)
             THEN [ok |-> FALSE, path |-> <<>>,
                   error |-> OutsideBaseMessage(Get(cwd))]
             ELSE IF ~ExistsSync(resolvedPath)
             THEN [ok |-> FALSE, path |-> <<>>,
                   error |-> NotFoundMessage(resolvedPath)]
             ELSE [ok |-> TRUE, path |-> resolvedPath, error |-> <<>>]

\* Math.min(timeout || this.maxTimeout, this.maxTimeout)
EffectiveTimeout(timeout, max) ==
    MathMin(IF timeout # None /\ NumTruthy(Get(timeout)) THEN Get(timeout)
            ELSE max,
            max)

\* Mutant of MergedEnv: the spread in the other order, the base environment
\* wins over the request's variables.
MergedEnvBaseWins(base, env) ==
    ObjectSpread(IF env = None THEN <<>> ELSE Get(env), base)

\* { ...this.shellEnvironment, ...(env || {}) }
MergedEnv(base, env) ==
    ObjectSpread(base, IF env = None THEN <<>> ELSE Get(env))

(***************************************************************************)
(* child_process.spawn with shell: true.  Node joins the command and the   *)
(* arguments with spaces and runs /bin/sh -c on the line; the shell splits *)
(* the line at ";" into commands and each command at spaces into words,    *)
(* and runs the first word of each command with the rest as its argv.      *)
(***************************************************************************)
ShellCommandLine(command, args) == Join(<<command>> \o args, <<Space>>)

RECURSIVE ShellCommands(_)
ShellCommands(cmds) ==
    IF cmds = <<>> THEN <<>>
    ELSE LET words == NonEmpty(SplitOn(cmds[1], Space))
         IN  (IF words = <<>> THEN <<>>
              ELSE << [prog |-> words[1], argv |-> Tail(words)] >>)
             \o ShellCommands(Tail(cmds))

ShellRun(line) == ShellCommands(SplitOn(line, Semi))

\* What spawn(command, args, {...options, shell: true, stdio: 'pipe'})
\* starts.
SpawnedPrograms(command, args) == ShellRun(ShellCommandLine(command, args))

\* validateTimeout of node:child_process: spawn throws ERR_OUT_OF_RANGE
\* unless options.timeout is an integer >= 0.
SpawnTimeoutValid(t) == NumberIsInteger(t) /\ t.ms >= 0

OutOfRangeMessage == <<"The value of \"timeout\" is out of range">>
SpawnThrowMessage == <<"spawn ENOMEM">>
SpawnErrorMessage == <<"spawn /bin/sh EAGAIN">>
ShellNotFoundChunk == <<"/bin/sh: not found">>

\* What the operating system does with the process creation: it succeeds,
\* it fails with an error node reports by an 'error' event, or it fails
\* with an error node throws from spawn().
OsOutcomes == {"ok", "EAGAIN", "ENOMEM"}

\* The timeout message written to stderr and the one of the error field.
TimeoutStderr(t) == <<"command timed out after ", ToString(t.ms), "ms">>
TimeoutError == <<"command execution timed out">>

\* The catch block of executeCommand.
UnexpectedMessage(message) == <<"failed to execute command: ">> \o message

(***************************************************************************)
(* ShellExecutor.executeCommand and spawnCommand: the synchronous part of  *)
(* a call, from the validation to the handlers and the timer being set.    *)
(***************************************************************************)

\* a || b on strings: the empty string is falsy.
StringOr(a, b) == IF a # <<>> THEN a ELSE b

\* Mutant of ToolResponse: the message is taken from the error field before
\* standard error.
ToolResponseErrorFirst(result) ==
    IF ~result.success
    THEN [ text    |-> <<"Error: ">>
                         \o StringOr(IF result.error = None THEN <<>>
                                      ELSE Get(result.error),
                                     StringOr(result.stderr,
                                              <<"Unknown error">>)),
           isError |-> TRUE ]
    ELSE [ text |-> result.stdout, isError |-> FALSE ]

\* The shell_execute tool handler, from the result of executeCommand on:
\* `Error: ${result.stderr || result.error || "Unknown error"}` with isError
\* true when the result is not a success, result.stdout otherwise.
ToolResponse(result) ==
    IF ~result.success
    THEN [ text    |-> <<"Error: ">>
                         \o StringOr(result.stderr,
                                     StringOr(IF result.error = None THEN <<>>
                                              ELSE Get(result.error),
                                              <<"Unknown error">>)),
           isError |-> TRUE ]
    ELSE [ text |-> result.stdout, isError |-> FALSE ]

\* Mutant of Resolve: every call of resolve replaces the value.
ResolveLastWins(rec, value, handler) ==
    [rec EXCEPT !.pc = "resolved",
                !.result = Some(value),
                !.via = handler,
                !.seen = Some([stdout |-> rec.stdout, stderr |-> rec.stderr,
                               chunks |-> rec.wrote]),
                !.response = Some(ToolResponse(value))]

\* resolve(value) of the promise of spawnCommand: the first call settles
\* the promise, every later call is ignored.  The tool handler awaiting
\* executeCommand continues with the value and builds its response.
Resolve(rec, value, handler) ==
    IF rec.result = None
    THEN [rec EXCEPT !.pc = "resolved",
                     !.result = Some(value),
                     !.via = handler,
                     !.seen = Some([stdout |-> rec.stdout,
                                    stderr |-> rec.stderr,
                                    chunks |-> rec.wrote]),
                     !.response = Some(ToolResponse(value))]
    ELSE rec

\* A return of createErrorResponse(message) from executeCommand.
ReturnError(r, message, handler) ==
    Resolve([IdleCall EXCEPT !.req = Some(r)],
            CreateErrorResponse(message), handler)

\* Mutant of CatchUnexpected: the exception of the body leaves executeCommand.
CatchRethrow(r, message) ==
    [IdleCall EXCEPT !.pc = "rejected", !.req = Some(r)]

\* The catch block of executeCommand: an exception of the body becomes an
\* error response.
CatchUnexpected(r, message) ==
    ReturnError(r, UnexpectedMessage(message), "catch")

\* Mutant of TimerAfterSetup: no timer is set.
TimerNeverSet(options) == "unset"

\* if (options.timeout) { timeoutId = setTimeout(...) }
TimerAfterSetup(options) ==
    IF NumTruthy(options.timeout) THEN "pending" ELSE "unset"

\* spawnCommand(command, args, options) up to the return of the promise:
\* either spawn() throws inside the executor, which rejects the promise, or
\* the handlers and the timer are set and the promise is pending.
SpawnCommand(r, options, os) ==
    IF ~SpawnTimeoutValid(options.timeout)
    THEN [threw |-> TRUE, message |-> OutOfRangeMessage,
          rec |-> [IdleCall EXCEPT !.attempts = 1]]
    ELSE IF os = "ENOMEM"
    THEN [threw |-> TRUE, message |-> SpawnThrowMessage,
          rec |-> [IdleCall EXCEPT !.attempts = 1]]
    ELSE [threw |-> FALSE, message |-> <<>>,
          rec |-> [IdleCall EXCEPT
                     !.pc = "running",
                     !.attempts = 1,
                     !.req = Some(r),
                     !.opts = Some(options),
                     !.spawns = IF os = "ok" THEN 1 ELSE 0,
                     !.procs = IF os = "ok"
                               THEN SpawnedPrograms(r.command, r.args)
                               ELSE <<>>,
                     !.child = IF os = "ok" THEN "running" ELSE "failed",
                     !.timer = TimerAfterSetup(options)]]

\* Mutant of ExecuteCommand: the working directory is validated before the
\* allow-list is consulted.
ExecuteCommandCwdFirst(r, os, allowed, base, max, shellEnv) ==
    LET wd == ValidateWorkingDirectory(r.cwd, base)
    IN  IF r.command = <<>>
        THEN ReturnError(r, NoCommandMessage, "noCommand")
        ELSE IF ~wd.ok
        THEN ReturnError(r, wd.error, "workingDir")
        ELSE IF ~IsCommandAllowed(r.command, allowed)
        THEN ReturnError(r, NotAllowedMessage(r.command, allowed),
                         "notAllowed")
        ELSE LET options ==
                     [cwd     |-> wd.path,
                      env     |-> MergedEnv(shellEnv, r.env),
                      timeout |-> EffectiveTimeout(r.timeout, max)]
                 sp == SpawnCommand(r, options, os)
             IN  IF sp.threw
                 THEN [CatchUnexpected(r, sp.message)
                         EXCEPT !.attempts = sp.rec.attempts]
                 ELSE sp.rec

\* executeCommand(command, args, cwd, env, timeout): the call record when
\* control returns to the event loop.
ExecuteCommand(r, os, allowed, base, max, shellEnv) ==
    IF r.command = <<>>
    THEN ReturnError(r, NoCommandMessage, "noCommand")
    ELSE IF ~IsCommandAllowed(r.command, allowed)
    THEN ReturnError(r, NotAllowedMessage(r.command, allowed), "notAllowed")
    ELSE LET wd == ValidateWorkingDirectory(r.cwd, base)
         IN  IF ~wd.ok
             THEN ReturnError(r, wd.error, "workingDir")
             ELSE LET options ==
                          [cwd     |-> wd.path,
                           env     |-> MergedEnv(shellEnv, r.env),
                           timeout |-> EffectiveTimeout(r.timeout, max)]
                      sp == SpawnCommand(r, options, os)
                  IN  IF sp.threw
                      THEN [CatchUnexpected(r, sp.message)
                              EXCEPT !.attempts = sp.rec.attempts]
                      ELSE sp.rec

\* Mutant of Execute: the timeout a call ran with becomes the maximum of
\* the calls after it.
ExecuteLowersMax(c, r, os) ==
    /\ call[c].pc = "idle"
    /\ call' = [call EXCEPT ![c] =
                   ExecuteCommand(r, os, allowedCommands, baseDirectory,
                                  maxTimeout, shellEnvironment)]
    /\ maxTimeout' = IF NumTruthy(EffectiveTimeout(r.timeout, maxTimeout))
                     THEN EffectiveTimeout(r.timeout, maxTimeout)
                     ELSE maxTimeout
    /\ UNCHANGED <<allowedCommands, baseDirectory, shellEnvironment>>
    /\ UNCHANGED outsideVars

Execute(c, r, os) ==
    /\ call[c].pc = "idle"
    /\ call' = [call EXCEPT ![c] =
                   ExecuteCommand(r, os, allowedCommands, baseDirectory,
                                  maxTimeout, shellEnvironment)]
    /\ UNCHANGED <<allowedCommands, baseDirectory, maxTimeout,
                   shellEnvironment>>
    /\ UNCHANGED outsideVars

(***************************************************************************)
(* The child process and the events of a running call.                     *)
(***************************************************************************)
MaxOutput == 2

ProgramMissing(p) == Basename(p.prog) \notin InstalledPrograms

\* The exit statuses the child shell can end with: 127 when the last
\* program of its line is not found, else any exit code, or none when a
\* signal ended it.
ExitStatuses(procs) ==
    IF procs # <<>> /\ ProgramMissing(procs[Len(procs)])
    THEN {Some(127)}
    ELSE {Some(0), Some(2), None}

\* data.toString() of a chunk: UTF-8 decoding of the chunk on its own.  The
\* two bytes "C3" "A9" are one character; a lead byte without its
\* continuation, or a continuation without its lead, decodes to U+FFFD.
RECURSIVE BufferToString(_)
BufferToString(chunk) ==
    IF chunk = <<>> THEN <<>>
    ELSE IF chunk[1] = "C3"
    THEN IF Len(chunk) >= 2 /\ chunk[2] = "A9"
         THEN <<"e-acute">> \o BufferToString(SubSeq(chunk, 3, Len(chunk)))
         ELSE <<"U+FFFD">> \o BufferToString(Tail(chunk))
    ELSE IF chunk[1] = "A9"
    THEN <<"U+FFFD">> \o BufferToString(Tail(chunk))
    ELSE <<chunk[1]>> \o BufferToString(Tail(chunk))

ChildWritable(c) ==
    /\ call[c].child \in {"running", "exited"}
    /\ Len(call[c].stdout) + Len(call[c].stderr) < MaxOutput

\* Mutant of StdoutData: one accumulator for all calls, every call in
\* progress gets the chunk.
StdoutDataShared(c, chunk) ==
    /\ ChildWritable(c)
    /\ call' = [d \in CallIds |->
                 IF d = c
                 THEN [call[d] EXCEPT
                         !.stdout = @ \o BufferToString(chunk),
                         !.wrote.stdout = Append(@, chunk)]
                 ELSE IF call[d].pc = "running"
                 THEN [call[d] EXCEPT !.stdout = @ \o BufferToString(chunk)]
                 ELSE call[d]]
    /\ UNCHANGED <<allowedCommands, baseDirectory, maxTimeout,
                   shellEnvironment>>
    /\ UNCHANGED outsideVars

\* childProcess.stdout.on('data')
StdoutData(c, chunk) ==
    /\ ChildWritable(c)
    /\ call' = [call EXCEPT ![c].stdout = @ \o BufferToString(chunk),
                            ![c].wrote.stdout = Append(@, chunk)]
    /\ UNCHANGED <<allowedCommands, baseDirectory, maxTimeout,
                   shellEnvironment>>
    /\ UNCHANGED outsideVars

\* childProcess.stderr.on('data')
StderrData(c, chunk) ==
    /\ ChildWritable(c)
    /\ \/ chunk # ShellNotFoundChunk
       \/ \E i \in 1..Len(call[c].procs) : ProgramMissing(call[c].procs[i])
    /\ call' = [call EXCEPT ![c].stderr = @ \o BufferToString(chunk),
                            ![c].wrote.stderr = Append(@, chunk)]
    /\ UNCHANGED <<allowedCommands, baseDirectory, maxTimeout,
                   shellEnvironment>>
    /\ UNCHANGED outsideVars

\* The child process ends, by exit or by a signal.
ChildExit(c, status) ==
    /\ call[c].child = "running"
    /\ status \in ExitStatuses(call[c].procs)
    /\ call' = [call EXCEPT ![c].child = "exited", ![c].exit = status]
    /\ UNCHANGED <<allowedCommands, baseDirectory, maxTimeout,
                   shellEnvironment>>
    /\ UNCHANGED outsideVars

\* Mutant of ClearTimeout: the timer is left armed.
ClearTimeoutForgotten(timer) == timer

\* if (timeoutId) { clearTimeout(timeoutId) }
ClearTimeout(timer) == IF timer = "pending" THEN "cleared" ELSE timer

\* Mutant of CloseResult: a null exit code, that of a child that died by a
\* signal, is reported as 0.
CloseResultNullIsZero(rec) ==
    [ stdout   |-> rec.stdout,
      stderr   |-> rec.stderr,
      exitCode |-> IF rec.exit # None THEN Get(rec.exit) ELSE 0,
      success  |-> rec.exit \in {Some(0), None},
      error    |-> None ]

\* The value the 'close' handler resolves with.
CloseResult(rec) ==
    [ stdout   |-> rec.stdout,
      stderr   |-> rec.stderr,
      exitCode |-> IF rec.exit # None THEN Get(rec.exit) ELSE 1,
      success  |-> rec.exit = Some(0),
      error    |-> None ]

\* Mutant of OnClose: a child that did not exit with 0 is spawned again,
\* once.
OnCloseRetry(rec) ==
    IF rec.exit # Some(0) /\ rec.attempts < 2 /\ rec.result = None
    THEN [rec EXCEPT !.attempts = @ + 1, !.spawns = @ + 1,
                     !.child = "running", !.exit = None]
    ELSE Resolve([rec EXCEPT !.timer = ClearTimeout(rec.timer),
                             !.child = "closed"],
                 CloseResult(rec), "close")

\* childProcess.on('close')
OnClose(rec) ==
    Resolve([rec EXCEPT !.timer = ClearTimeout(rec.timer),
                        !.child = "closed"],
            CloseResult(rec), "close")

CloseEvent(c) ==
    /\ call[c].child \in {"exited", "errored"}
    /\ call' = [call EXCEPT ![c] = OnClose(call[c])]
    /\ UNCHANGED <<allowedCommands, baseDirectory, maxTimeout,
                   shellEnvironment>>
    /\ UNCHANGED outsideVars

\* The value the 'error' handler resolves with.
ErrorResult(rec, message) ==
    [ stdout   |-> rec.stdout,
      stderr   |-> message,
      exitCode |-> 1,
      success  |-> FALSE,
      error    |-> Some(message) ]

\* childProcess.on('error'); node reports the failed spawn to 'close'
\* afterwards with the negated errno as the exit code.
OnError(rec, message) ==
    Resolve([rec EXCEPT !.timer = ClearTimeout(rec.timer),
                        !.child = "errored",
                        !.exit = Some(-11)],
            ErrorResult(rec, message), "error")

ErrorEvent(c) ==
    /\ call[c].child = "failed"
    /\ call' = [call EXCEPT ![c] = OnError(call[c], SpawnErrorMessage)]
    /\ UNCHANGED <<allowedCommands, baseDirectory, maxTimeout,
                   shellEnvironment>>
    /\ UNCHANGED outsideVars

\* The value the timer callback resolves with.
TimeoutResult(rec) ==
    [ stdout   |-> rec.stdout,
      stderr   |-> TimeoutStderr(Get(rec.opts).timeout),
      exitCode |-> 1,
      success  |-> FALSE,
      error    |-> Some(TimeoutError) ]

\* Mutant of OnTimeout: the promise is resolved and the child is not killed.
OnTimeoutNoKill(rec) ==
    Resolve([rec EXCEPT !.timer = "fired"], TimeoutResult(rec), "timeout")

\* The callback of setTimeout: childProcess.kill(), then resolve.
OnTimeout(rec) ==
    Resolve([rec EXCEPT !.timer = "fired", !.kills = @ + 1],
            TimeoutResult(rec), "timeout")

\* The timer expires.  The 'error' event of a failed spawn is queued with
\* process.nextTick and so runs before any timer.
TimerFire(c) ==
    /\ call[c].timer = "pending"
    /\ call[c].child # "failed"
    /\ call' = [call EXCEPT ![c] = OnTimeout(call[c])]
    /\ UNCHANGED <<allowedCommands, baseDirectory, maxTimeout,
                   shellEnvironment>>
    /\ UNCHANGED outsideVars

\* The caller has its result and the call's closure has no event left: the
\* slot is free for the next call.
Return(c) ==
    /\ call[c].pc = "resolved"
    /\ call[c].child \in {"none", "closed"}
    /\ call[c].timer # "pending"
    /\ call' = [call EXCEPT ![c] = IdleCall]
    /\ UNCHANGED <<allowedCommands, baseDirectory, maxTimeout,
                   shellEnvironment>>
    /\ UNCHANGED outsideVars

(***************************************************************************)
(* The allow-list operations.                                              *)
(***************************************************************************)
SetHas(list, n) == \E i \in 1..Len(list) : list[i] = n

\* Mutant of SetAdd: the name is appended whether present or not.
SetAddAlways(list, n) == Append(list, n)

\* Set.prototype.add: a new member goes last, a present one stays put.
SetAdd(list, n) == IF SetHas(list, n) THEN list ELSE Append(list, n)

\* Set.prototype.delete
SetDelete(list, n) == SelectSeq(list, LAMBDA x : x # n)

AllowCommand(n) ==
    /\ allowedCommands' = SetAdd(allowedCommands, n)
    /\ UNCHANGED <<baseDirectory, maxTimeout, shellEnvironment, call>>
    /\ UNCHANGED outsideVars

DisallowCommand(n) ==
    /\ allowedCommands' = SetDelete(allowedCommands, n)
    /\ UNCHANGED <<baseDirectory, maxTimeout, shellEnvironment, call>>
    /\ UNCHANGED outsideVars

\* getAllowedCommands(): Array.from(this.allowedCommands)
GetAllowedCommands == allowedCommands

\* Mutant of ArrayFrom: the storage of the allow-list itself is handed out.
ArrayFromAliased(list) == [arr |-> list, alias |-> TRUE]

\* Array.from(iterable): a new array of the members in iteration order,
\* which for a Set is insertion order.  alias tells whether the array is the
\* storage of the allow-list.
ArrayFrom(list) == [arr |-> list, alias |-> FALSE]

\* A call of getAllowedCommands(); the caller keeps the array.
GetAllowedCommandsCall ==
    /\ listed' = Some(ArrayFrom(GetAllowedCommands))
    /\ UNCHANGED shellVars
    /\ UNCHANGED braveVars

\* What a caller does to an array it holds: arr.length = 0, arr.reverse(),
\* arr[0] = n.
Reverse(arr) == [i \in 1..Len(arr) |-> arr[Len(arr) + 1 - i]]

ArrayMutations(arr, names) ==
    { <<>>, Reverse(arr) }
      \cup { [arr EXCEPT ![1] = n] : n \in IF arr = <<>> THEN {} ELSE names }

\* The caller mutates the array it was returned.  An array that is the
\* storage of the allow-list changes the allow-list with it.
CallerMutates(arr2) ==
    /\ listed # None
    /\ listed' = Some([Get(listed) EXCEPT !.arr = arr2])
    /\ allowedCommands' = IF Get(listed).alias THEN arr2 ELSE allowedCommands
    /\ UNCHANGED <<baseDirectory, maxTimeout, shellEnvironment, call>>
    /\ UNCHANGED braveVars

(***************************************************************************)
(* The search server: the rate limiter.                                    *)
(***************************************************************************)

\* RATE_LIMIT
RateLimitPerSecond == 1
RateLimitPerMonth == 15000

\* The window of checkRateLimit, in milliseconds.
WindowMs == 1000

RateLimitMessage == <<"Rate limit exceeded">>

\* checkRateLimit() at time t with the counters rc: the counters afterwards
\* and whether it threw.  The reset of the window stays when it throws.
CheckRateLimit(rc, t) ==
    LET rc1 == IF t - rc.lastReset > WindowMs
               THEN [rc EXCEPT !.second = 0, !.lastReset = t]
               ELSE rc
    IN  IF rc1.second >= RateLimitPerSecond \/ rc1.month >= RateLimitPerMonth
        THEN [threw |-> TRUE, rc |-> rc1]
        ELSE [threw |-> FALSE,
              rc    |-> [rc1 EXCEPT !.second = @ + 1, !.month = @ + 1]]

(***************************************************************************)
(* The search server: the Brave API and the formatting of its answers.     *)
(***************************************************************************)

\* Math.min(count, 20)
ApiCount(count) == IF count < 20 THEN count ELSE 20

ApiErrorMessage(status) == <<"Brave API error: ", ToString(status)>>

\* performWebSearch: the text of data.web?.results || [].
FormatWebResults(results) ==
    Join([i \in 1..Len(results) |->
            <<"Title: ">> \o results[i].title
              \o <<"\nDescription: ">> \o results[i].description
              \o <<"\nURL: ">> \o results[i].url],
         <<"\n\n">>)

\* webData.locations?.results?.filter(r => r.id != null).map(r => r.id) || []
LocationIds(locations) ==
    IF locations = None THEN <<>>
    ELSE LET withId == SelectSeq(Get(locations), LAMBDA r : r.id # None)
         IN  [i \in 1..Len(withId) |-> Get(withId[i].id)]

\* a || b for an optional string against a default.
OrElse(opt, default) ==
    IF opt = None \/ Get(opt) = <<>> THEN default ELSE Get(opt)

FormatPoi(poi, descriptions) ==
    LET parts == SelectSeq(poi.address, LAMBDA part : part # <<>>)
        address == StringOr(Join(parts, <<", ">>), <<"N/A">>)
    IN  <<"Name: ">> \o poi.name
          \o <<"\nAddress: ">> \o address
          \o <<"\nPhone: ">> \o OrElse(poi.phone, <<"N/A">>)
          \o <<"\nRating: ">> \o OrElse(poi.ratingValue, <<"N/A">>)
          \o <<" (">> \o OrElse(poi.ratingCount, <<"0">>) \o <<" reviews)">>
          \o <<"\nPrice Range: ">> \o OrElse(poi.priceRange, <<"N/A">>)
          \o <<"\nHours: ">>
          \o StringOr(Join(poi.openingHours, <<", ">>), <<"N/A">>)
          \o <<"\nDescription: ">>
          \o (IF poi.id \in DOMAIN descriptions
                   /\ descriptions[poi.id] # <<>>
              THEN descriptions[poi.id]
              ELSE <<"No description available">>)
          \o <<"\n">>

\* formatLocalResults(poisData, descData)
FormatLocalResults(poisData, descData) ==
    StringOr(Join([i \in 1..Len(poisData.results) |->
                     FormatPoi(poisData.results[i], descData.descriptions)],
                  <<"\n---\n">>),
             <<"No local results found">>)

\* The answers of the API to the three kinds of request.
WebResult1 ==
    [ title |-> <<"T1">>, description |-> <<"D1">>, url |-> <<"U1">> ]

Poi1 ==
    [ id           |-> "id1",
      name         |-> <<"Cafe">>,
      address      |-> << <<"1 Main St">>, <<>>, <<"CA">>, <<>> >>,
      phone        |-> None,
      ratingValue  |-> Some(<<"4.5">>),
      ratingCount  |-> None,
      priceRange   |-> None,
      openingHours |-> <<>> ]

SearchResponses ==
    { [ok |-> FALSE, status |-> 500, web |-> <<>>, locations |-> None],
      [ok |-> TRUE, status |-> 200, web |-> <<>>, locations |-> None],
      [ok |-> TRUE, status |-> 200, web |-> <<WebResult1>>,
       locations |-> None],
      [ok |-> TRUE, status |-> 200, web |-> <<WebResult1>>,
       locations |-> Some(<< [id |-> None] >>)],
      [ok |-> TRUE, status |-> 200, web |-> <<>>,
       locations |-> Some(<< [id |-> Some("id1")] >>)] }

PoisResponses ==
    { [ok |-> FALSE, status |-> 429, results |-> <<>>],
      [ok |-> TRUE, status |-> 200, results |-> <<>>],
      [ok |-> TRUE, status |-> 200, results |-> <<Poi1>>] }

DescriptionsResponses ==
    { [ok |-> FALSE, status |-> 429, descriptions |-> <<>>],
      [ok |-> TRUE, status |-> 200, descriptions |-> <<>>],
      [ok |-> TRUE, status |-> 200,
       descriptions |-> [id1 |-> <<"nice">>]] }

(***************************************************************************)
(* The search server: the tools brave_web_search and brave_local_search.   *)
(***************************************************************************)

\* No tool call in progress.
IdleSearch ==
    [ pc       |-> "idle",    \* idle | web | locations | details | done
      tool     |-> "none",    \* none | web | local
      query    |-> <<>>,      \* the arguments of the tool call
      count    |-> 0,
      fetch    |-> None,      \* the web/search request in flight
      fallback |-> FALSE,     \* performWebSearch was called as the fallback
      ids      |-> <<>>,      \* locationIds
      pois     |-> "none",    \* getPoisData: none | pending | limited |
                              \* ok | failed
      desc     |-> "none",    \* getDescriptionsData, likewise
      poisData |-> None,
      descData |-> None,
      webData  |-> None,      \* history: the results the web search got
      apiFailed |-> FALSE,    \* history: an answer of the API was not ok
      outcome  |-> None,      \* how perform...Search settled
      response |-> None ]     \* what the tool handler answered

\* The tool handlers: the results as text, or "Error: " and the message.
BraveToolResponse(outcome) ==
    IF outcome.threw
    THEN [text |-> <<"Error: ">> \o outcome.value, isError |-> TRUE]
    ELSE [text |-> outcome.value, isError |-> FALSE]

\* The promise of perform...Search settles, once, and the handler answers.
Settle(rec, threw, value) ==
    IF rec.outcome = None
    THEN LET outcome == [threw |-> threw, value |-> value]
         IN  [rec EXCEPT !.pc = "done",
                         !.outcome = Some(outcome),
                         !.response = Some(BraveToolResponse(outcome))]
    ELSE rec

\* performWebSearch(query, count) up to its await: the rate-limit check that
\* passed or threw (chk), then the request.
PerformWebSearch(rec, query, count, chk) ==
    IF chk.threw
    THEN Settle(rec, TRUE, RateLimitMessage)
    ELSE [rec EXCEPT !.pc = "web",
                     !.fetch = Some([endpoint |-> "web/search",
                                     q        |-> query,
                                     count    |-> ApiCount(count),
                                     filter   |-> "none"])]

\* performLocalSearch(query, count) up to its first await.
PerformLocalSearch(rec, query, count, chk) ==
    IF chk.threw
    THEN Settle(rec, TRUE, RateLimitMessage)
    ELSE [rec EXCEPT !.pc = "locations",
                     !.fetch = Some([endpoint |-> "web/search",
                                     q        |-> query,
                                     count    |-> ApiCount(count),
                                     filter   |-> "locations"])]

\* The times the checks of one step were passed at, added to the history.
Admit(history, chks, t) ==
    history \o [i \in 1..Len(SelectSeq(chks, LAMBDA k : ~k.threw)) |-> t]

\* The tool brave_web_search is called; count defaults to 10.
WebSearchCall(query, count) ==
    /\ search.pc = "idle"
    /\ LET n == IF count = None THEN 10 ELSE Get(count)
           chk == CheckRateLimit(requestCount, now)
           rec == [IdleSearch EXCEPT !.tool = "web", !.query = query,
                                     !.count = n]
       IN  /\ requestCount' = chk.rc
           /\ admitted' = Admit(admitted, <<chk>>, now)
           /\ search' = PerformWebSearch(rec, query, n, chk)
    /\ UNCHANGED <<now, listed>>
    /\ UNCHANGED shellVars

\* The tool brave_local_search is called; count defaults to 5.
LocalSearchCall(query, count) ==
    /\ search.pc = "idle"
    /\ LET n == IF count = None THEN 5 ELSE Get(count)
           chk == CheckRateLimit(requestCount, now)
           rec == [IdleSearch EXCEPT !.tool = "local", !.query = query,
                                     !.count = n]
       IN  /\ requestCount' = chk.rc
           /\ admitted' = Admit(admitted, <<chk>>, now)
           /\ search' = PerformLocalSearch(rec, query, n, chk)
    /\ UNCHANGED <<now, listed>>
    /\ UNCHANGED shellVars

\* The answer to the request of performWebSearch arrives.
WebFetchReturn(resp) ==
    /\ search.pc = "web"
    /\ search' =
         IF ~resp.ok
         THEN Settle([search EXCEPT !.fetch = None, !.apiFailed = TRUE],
                     TRUE, ApiErrorMessage(resp.status))
         ELSE Settle([search EXCEPT !.fetch = None,
                                    !.webData = Some(resp.web)],
                     FALSE, FormatWebResults(resp.web))
    /\ UNCHANGED <<now, requestCount, admitted, listed>>
    /\ UNCHANGED shellVars

\* Promise.all([getPoisData(ids), getDescriptionsData(ids)]): both functions
\* run up to their await, one after the other, at the same time t; each
\* checks the rate limit and sends its request when the check passed.  The
\* promise rejects with the first rejection.
FetchDetails(rec, ids, chk1, chk2) ==
    LET started ==
            [rec EXCEPT !.pc = "details",
                        !.ids = ids,
                        !.pois = IF chk1.threw THEN "limited" ELSE "pending",
                        !.desc = IF chk2.threw THEN "limited" ELSE "pending"]
    IN  IF chk1.threw \/ chk2.threw
        THEN Settle(started, TRUE, RateLimitMessage)
        ELSE started

\* The answer to the first request of performLocalSearch arrives: an error,
\* no location id and the fallback to performWebSearch, or the two detail
\* requests.
LocationsFetchReturn(resp) ==
    /\ search.pc = "locations"
    /\ LET rec == [search EXCEPT !.fetch = None]
           ids == LocationIds(resp.locations)
           chk1 == CheckRateLimit(requestCount, now)
           chk2 == CheckRateLimit(chk1.rc, now)
       IN  IF ~resp.ok
           THEN /\ search' = Settle([rec EXCEPT !.apiFailed = TRUE], TRUE,
                                    ApiErrorMessage(resp.status))
                /\ UNCHANGED <<requestCount, admitted>>
           ELSE IF Len(ids) = 0
           THEN /\ search' = PerformWebSearch([rec EXCEPT !.fallback = TRUE],
                                              rec.query, rec.count, chk1)
                /\ requestCount' = chk1.rc
                /\ admitted' = Admit(admitted, <<chk1>>, now)
           ELSE /\ search' = FetchDetails(rec, ids, chk1, chk2)
                /\ requestCount' = chk2.rc
                /\ admitted' = Admit(admitted, <<chk1, chk2>>, now)
    /\ UNCHANGED <<now, listed>>
    /\ UNCHANGED shellVars

\* The promise of Promise.all once an answer has arrived: rejected with the
\* error of an answer that is not ok, fulfilled when both are there.
AfterDetail(rec) ==
    IF rec.pois = "failed" \/ rec.desc = "failed"
    THEN Settle(rec, TRUE, ApiErrorMessage(429))
    ELSE IF rec.pois = "ok" /\ rec.desc = "ok"
    THEN Settle(rec, FALSE,
                FormatLocalResults(Get(rec.poisData), Get(rec.descData)))
    ELSE rec

\* The answer to a detail request arrives, to getPoisData or to
\* getDescriptionsData.
DetailFetchReturn(which, resp) ==
    /\ search[which] = "pending"
    /\ resp \in IF which = "pois" THEN PoisResponses
                ELSE DescriptionsResponses
    /\ search' =
         AfterDetail(
           IF which = "pois"
           THEN [search EXCEPT !.pois = IF resp.ok THEN "ok" ELSE "failed",
                               !.poisData = Some(resp),
                               !.apiFailed = @ \/ ~resp.ok]
           ELSE [search EXCEPT !.desc = IF resp.ok THEN "ok" ELSE "failed",
                               !.descData = Some(resp),
                               !.apiFailed = @ \/ ~resp.ok])
    /\ UNCHANGED <<now, requestCount, admitted, listed>>
    /\ UNCHANGED shellVars

\* The tool call is over and no request of it is in flight.
SearchDone ==
    /\ search.pc = "done"
    /\ search.pois # "pending"
    /\ search.desc # "pending"
    /\ search' = IdleSearch
    /\ UNCHANGED <<now, requestCount, admitted, listed>>
    /\ UNCHANGED shellVars

\* Time passes, a tick at a time.
TickMs == 500
MaxTicks == 5

Tick ==
    /\ now + TickMs <= MaxTicks * TickMs
    /\ now' = now + TickMs
    /\ UNCHANGED <<requestCount, search, admitted, listed>>
    /\ UNCHANGED shellVars

\* Module load: requestCount = { second: 0, month: 0, lastReset: Date.now() }
BraveInit ==
    /\ now = 0
    /\ requestCount = [second |-> 0, month |-> 0, lastReset |-> 0]
    /\ search = IdleSearch
    /\ admitted = <<>>

Queries == { <<"pizza">>, <<"cafe">> }
Counts == { None, Some(30) }

BraveNext ==
    \/ \E q \in Queries, n \in Counts : WebSearchCall(q, n)
    \/ \E q \in Queries, n \in Counts : LocalSearchCall(q, n)
    \/ \E resp \in SearchResponses : WebFetchReturn(resp)
    \/ \E resp \in SearchResponses : LocationsFetchReturn(resp)
    \/ \E which \in {"pois", "desc"},
          resp \in PoisResponses \cup DescriptionsResponses :
          DetailFetchReturn(which, resp)
    \/ SearchDone
    \/ Tick

(***************************************************************************)
(* Startup, the inputs, and the specification.                             *)
(***************************************************************************)

\* Startup: the base directory must exist, else the process exits; then
\* new ShellExecutor(baseDirectory, userEnv).
Init ==
    /\ \E arg \in BaseDirArgs :
          /\ ExistsSync(BaseDirectoryOf(arg))
          /\ baseDirectory = BaseDirectoryOf(arg)
    /\ allowedCommands = SeedCommands
    /\ maxTimeout = Num(MaxTimeoutMs)
    /\ shellEnvironment = [PATH |-> "/usr/bin", HOME |-> "/root"]
    /\ call = [c \in CallIds |-> IdleCall]
    /\ listed = None
    /\ BraveInit

\* The request every other request of the main specification differs from
\* in one argument.
DefaultRequest ==
    [ command |-> <<"ls">>,
      args    |-> <<>>,
      cwd     |-> None,
      env     |-> None,
      timeout |-> None ]

Commands ==
    { <<>>,
      <<"ls">>,
      <<Slash, "bin", Slash, "ls">>,
      <<"curl">>,
      <<"curl", Semi, Slash, "ls">>,
      <<"python">>,
      <<"wget">> }

ArgLists ==
    { <<>>,
      << <<"-l">> >>,
      << <<"a", Space, "b">> >>,
      << <<Semi, "curl">> >> }

Cwds ==
    { None,
      Some(<<>>),
      Some(<<"sub">>),
      Some(<<Dot>>),
      Some(<<Dot, Dot>>),
      Some(<<Slash, "app", Slash, "sub">>),
      Some(<<Slash, "app", "-other">>),
      Some(<<Dot, Dot, Slash, "app", "-other">>),
      Some(<<"missing">>) }

Envs == { None, Some([PATH |-> "/opt/bin"]), Some([EXTRA |-> "1"]) }

Timeouts ==
    { None,
      Some(Num(0)),
      Some(Num(-1)),
      Some(NumHalf(1)),
      Some(Num(1000)),
      Some(Num(70000)) }

\* The requests: those that differ from DefaultRequest in one argument, or in
\* the command and one other argument.
Requests ==
    { r \in [command : Commands, args : ArgLists, cwd : Cwds, env : Envs,
             timeout : Timeouts] :
        Cardinality({ f \in {"args", "cwd", "env", "timeout"} :
                        r[f] # DefaultRequest[f] }) <= 1 }

\* The names allowCommand and disallowCommand are called with.
AdminNames == { <<"curl">> }

StdoutChunks == { <<"out">> }
StderrChunks == { <<"err">>, ShellNotFoundChunk }

NextOf(calls, requests, names, outs, errs) ==
    \/ \E c \in calls, r \in requests, os \in OsOutcomes : Execute(c, r, os)
    \/ \E c \in calls, chunk \in outs : StdoutData(c, chunk)
    \/ \E c \in calls, chunk \in errs : StderrData(c, chunk)
    \/ \E c \in calls, status \in {Some(0), Some(2), Some(127), None} :
          ChildExit(c, status)
    \/ \E c \in calls : CloseEvent(c)
    \/ \E c \in calls : ErrorEvent(c)
    \/ \E c \in calls : TimerFire(c)
    \/ \E c \in calls : Return(c)
    \/ \E n \in names : AllowCommand(n)
    \/ \E n \in names : DisallowCommand(n)

\* One call at a time.
Next == NextOf({1}, Requests, AdminNames, StdoutChunks, StderrChunks)

Spec == Init /\ [][Next]_vars

\* The maintenance of the allow-list: allowCommand and disallowCommand with a
\* name that is absent from the seed list, a name with a directory prefix and
\* a name of the seed list, and executeCommand with the same strings as
\* commands.
ListNames ==
    { <<"curl">>,
      <<Slash, "bin", Slash, "curl">>,
      <<"ls">> }

ListRequests == { [DefaultRequest EXCEPT !.command = n] : n \in ListNames }

ListNext == NextOf({1}, ListRequests, ListNames, StdoutChunks, StderrChunks)

ListSpec == Init /\ [][ListNext]_vars

\* The introspection of the allow-list: getAllowedCommands between
\* allowCommand and disallowCommand calls, and a caller that changes the
\* arrays it gets.
QueryNext ==
    \/ \E n \in ListNames : AllowCommand(n)
    \/ \E n \in ListNames : DisallowCommand(n)
    \/ GetAllowedCommandsCall
    \/ \E arr2 \in ArrayMutations(IF listed = None THEN <<>>
                                   ELSE Get(listed).arr, ListNames) :
          CallerMutates(arr2)

QuerySpec == Init /\ [][QueryNext]_vars

\* Two calls in progress at the same time, the first with the default
\* timeout and the second with a timeout of 1000 ms.
ShortRequest == [DefaultRequest EXCEPT !.timeout = Some(Num(1000))]

\* ls, the command of both calls, is disallowed and allowed again.
PairNames == { <<"ls">> }

PairNext ==
    \/ NextOf({1}, {DefaultRequest}, PairNames, StdoutChunks, StderrChunks)
    \/ NextOf({2}, {ShortRequest}, PairNames, StdoutChunks, StderrChunks)

\* The server started with --baseDir /app.
PairInit == Init /\ baseDirectory = <<Slash, "app">>

PairSpec == PairInit /\ [][PairNext]_vars

\* A child whose output has a character of two bytes, "C3" "A9", which the
\* pipe delivers in one chunk or in two.
Utf8Chunks == { <<"out">>, <<"C3", "A9">>, <<"C3">>, <<"A9">> }

Utf8Next ==
    NextOf({1}, {DefaultRequest}, AdminNames, Utf8Chunks, StderrChunks)

Utf8Spec == Init /\ [][Utf8Next]_vars

\* The search server.
BraveSpec == Init /\ [][BraveNext]_vars

(***************************************************************************)
(* Properties.                                                             *)
(***************************************************************************)

\* String.prototype.includes
Contains(s, sub) ==
    \E i \in 0..(Len(s) - Len(sub)) : SubSeq(s, i + 1, i + Len(sub)) = sub

\* Call c is made in this step.
Called(c) == call[c].pc = "idle" /\ call'[c].pc # "idle"

RequestOf(rec) == Get(rec.req)
ResultOf(rec) == Get(rec.result)

\* The result is an error response whose message names the command and every
\* member of the allow-list.
NamesCommandAndList(rec, command, allowed) ==
    /\ rec.result # None
    /\ ResultOf(rec).success = FALSE
    /\ ResultOf(rec).error # None
    /\ Contains(Get(ResultOf(rec).error), command)
    /\ \A i \in 1..Len(allowed) : Contains(Get(ResultOf(rec).error), allowed[i])

NoChild(rec) == rec.spawns = 0 /\ rec.child = "none" /\ rec.procs = <<>>

\* C1 as stated: every call whose command's basename is not in the allow-list
\* at the time of the call returns success = false with a message that names
\* the command and lists the allowed commands, and spawns no child.
C1_Original ==
    [][\A c \in CallIds :
          (Called(c) /\ ~SetHas(allowedCommands,
                                Basename(RequestOf(call'[c]).command)))
          => /\ call'[c].pc = "resolved"
             /\ NamesCommandAndList(call'[c], RequestOf(call'[c]).command,
                                    allowedCommands)
             /\ NoChild(call'[c])]_vars

\* C1, amended: every call with a non-empty command whose basename is not in
\* the allow-list at the time of the call returns at once, success = false,
\* with a message that names the command and lists the allowed commands; and
\* every call whose command's basename is not in the allow-list, the empty
\* command included, returns at once with success = false and spawns no
\* child.
C1_Rejected ==
    [][\A c \in CallIds :
          (Called(c) /\ ~SetHas(allowedCommands,
                                Basename(RequestOf(call'[c]).command)))
          => /\ call'[c].pc = "resolved"
             /\ ResultOf(call'[c]).success = FALSE
             /\ NoChild(call'[c])
             /\ RequestOf(call'[c]).command # <<>>
                  => NamesCommandAndList(call'[c],
                                         RequestOf(call'[c]).command,
                                         allowedCommands)]_vars

\* A call of a command that is not allow-listed (curl, after startup) has
\* been rejected.
C1_Witness ==
    \E c \in CallIds :
        /\ call[c].pc = "resolved"
        /\ RequestOf(call[c]).command = <<"curl">>
        /\ ~SetHas(allowedCommands, <<"curl">>)
        /\ call[c].via = "notAllowed"
        /\ NamesCommandAndList(call[c], <<"curl">>, allowedCommands)

Made(rec) == rec.pc # "idle"

\* The returns of executeCommand that precede spawnCommand.
ValidationReturns == {"noCommand", "notAllowed", "workingDir"}

\* C2 as stated, in its conclusion: every program a call starts has the
\* basename of the request's command, the one the allow-list check passed;
\* nothing in the command's directory prefix or in the arguments starts
\* another program.
C2_OnlyAllowedProgramRuns ==
    \A c \in CallIds :
        call[c].spawns > 0
        => \A i \in 1..Len(call[c].procs) :
               Basename(call[c].procs[i].prog)
                   = Basename(RequestOf(call[c]).command)

\* The normalized absolute path of a path given to the server process.
Absolute(p) == PathResolve(ProcessCwd, p)

Segments(p) == NonEmpty(SplitOn(p, Slash))

\* Containment by path segments: p is base or a descendant of base.
Within(p, base) ==
    LET ps == Segments(Absolute(p))
        bs == Segments(Absolute(base))
    IN  Len(bs) <= Len(ps) /\ SubSeq(ps, 1, Len(bs)) = bs

CwdGiven(rec) == RequestOf(rec).cwd # None /\ Get(RequestOf(rec).cwd) # <<>>

\* The directory a request asks for, resolved against the base directory.
RequestedDir(rec) ==
    IF CwdGiven(rec)
    THEN PathResolve(Absolute(baseDirectory), Get(RequestOf(rec).cwd))
    ELSE Absolute(baseDirectory)

\* The call passed the checks of the command: it is not empty and its
\* basename was in the allow-list.
CommandAccepted(rec) == rec.via \notin {"noCommand", "notAllowed"}

\* C3 as stated: a call whose requested directory resolves outside the base
\* directory, by path segments, fails with the sandbox violation and spawns
\* no child.
C3_OutsideRejected ==
    \A c \in CallIds :
        (Made(call[c]) /\ CommandAccepted(call[c]) /\ CwdGiven(call[c])
           /\ ~Within(RequestedDir(call[c]), baseDirectory))
        => /\ call[c].via = "workingDir"
           /\ ResultOf(call[c]).success = FALSE
           /\ ResultOf(call[c]).error
                = Some(OutsideBaseMessage(Get(RequestOf(call[c]).cwd)))
           /\ NoChild(call[c])

\* C4 as stated: for every base directory the server starts with, a call
\* whose requested directory is the base directory or a descendant of it and
\* exists passes the validation, and the working directory handed to spawn is
\* the normalized absolute path of the requested directory.
C4_InsideAccepted ==
    \A c \in CallIds :
        (Made(call[c]) /\ CommandAccepted(call[c]) /\ CwdGiven(call[c])
           /\ Within(RequestedDir(call[c]), baseDirectory)
           /\ RequestedDir(call[c]) \in ExistingPaths)
        => /\ call[c].via \notin ValidationReturns
           /\ call[c].opts # None
                => Get(call[c].opts).cwd = RequestedDir(call[c])

IsExecutionResult(v) ==
    /\ DOMAIN v = {"stdout", "stderr", "exitCode", "success", "error"}
    /\ v.success \in BOOLEAN
    /\ v.exitCode \in Int
    /\ Cardinality(v.error) <= 1

\* C5: no call's promise is ever rejected; a call that has returned control
\* is settled with an ExecutionResult or is pending with its timer armed, so
\* that it settles when its timer fires at the latest.
C5_NeverRejects ==
    \A c \in CallIds :
        /\ call[c].pc \in {"idle", "running", "resolved"}
        /\ call[c].pc = "resolved"
             => call[c].result # None /\ IsExecutionResult(ResultOf(call[c]))
        /\ call[c].pc = "running"
             => call[c].result = None /\ call[c].timer = "pending"

\* A call with a negative timeout, which spawn() refuses by throwing, has
\* returned an error response.
C5_Witness ==
    \E c \in CallIds :
        /\ call[c].pc = "resolved"
        /\ RequestOf(call[c]).timeout = Some(Num(-1))
        /\ call[c].via = "catch"
        /\ ResultOf(call[c]).success = FALSE
        /\ ResultOf(call[c]).error = Some(UnexpectedMessage(OutOfRangeMessage))

(***************************************************************************)
(* The event loop runs every callback that is due: an expired timer fires  *)
(* and a queued 'error' event is delivered.  Nothing makes a child exit.   *)
(***************************************************************************)
LiveSpec ==
    /\ Spec
    /\ \A c \in {1} : WF_vars(TimerFire(c)) /\ WF_vars(ErrorEvent(c))

\* The result of a timeout.
IsTimeoutResult(v) ==
    /\ v.success = FALSE
    /\ v.exitCode = 1
    /\ v.error = Some(TimeoutError)

\* C6: a call that has spawned a child returns; when its timer fires while
\* the child has not exited, the call has returned by the end of that step,
\* with success = false and the timeout error.
C6_ReturnsByTimeout ==
    /\ \A c \in CallIds :
          (call[c].pc = "running") ~> (call[c].pc = "resolved")
    /\ [][\A c \in CallIds :
             (call[c].timer = "pending" /\ call'[c].timer = "fired"
                /\ call[c].child = "running")
             => /\ call'[c].pc = "resolved"
                /\ IsTimeoutResult(ResultOf(call'[c]))]_vars

\* A call whose child never exited has returned by timeout while the child
\* runs on.
C6_Witness ==
    \E c \in CallIds :
        /\ call[c].child = "running"
        /\ call[c].timer = "fired"
        /\ call[c].pc = "resolved"
        /\ IsTimeoutResult(ResultOf(call[c]))

\* C7: a timer fires only before the close of the child has been observed,
\* and when it has fired a kill was issued and the call's result is the
\* timeout result: exit code 1, success = false, the timeout error.
C7_TimeoutKillsAndReports ==
    \A c \in CallIds :
        call[c].timer = "fired"
        => /\ call[c].kills = 1
           /\ call[c].via = "timeout"
           /\ call[c].pc = "resolved"
           /\ IsTimeoutResult(ResultOf(call[c]))

\* The timer fired after the child had exited and before its close was
\* observed.
C7_Witness ==
    \E c \in CallIds :
        /\ call[c].timer = "fired"
        /\ call[c].child = "exited"
        /\ call[c].kills = 1
        /\ ResultOf(call[c]).exitCode = 1

\* C8 as stated: the result of a timeout contains the standard-output text
\* and the standard-error text received before the timer fired.
C8_TimeoutKeepsOutput ==
    \A c \in CallIds :
        call[c].via = "timeout"
        => /\ Contains(ResultOf(call[c]).stdout, Get(call[c].seen).stdout)
           /\ Contains(ResultOf(call[c]).stderr, Get(call[c].seen).stderr)

\* C9: when the close of the child is observed before the timer fires, the
\* timer is cancelled and stays so, no kill is issued, the exit code of the
\* result is the child's (1 when a signal ended it and it has none), and
\* success is true exactly when the child exited with code 0.
C9_CloseBeforeTimer ==
    \A c \in CallIds :
        call[c].via = "close"
        => /\ call[c].timer = "cleared"
           /\ call[c].kills = 0
           /\ call[c].exit # None
                => ResultOf(call[c]).exitCode = Get(call[c].exit)
           /\ call[c].exit = None => ResultOf(call[c]).exitCode = 1
           /\ ResultOf(call[c]).success = (call[c].exit = Some(0))
           /\ ResultOf(call[c]).error = None

\* A child that exited with code 2 has been reported.
C9_Witness ==
    \E c \in CallIds :
        /\ call[c].via = "close"
        /\ call[c].exit = Some(2)
        /\ ResultOf(call[c]).exitCode = 2
        /\ ResultOf(call[c]).success = FALSE
        /\ call[c].timer = "cleared"

\* The program a request names cannot be started.
CannotStart(rec) ==
    ProgramMissing([prog |-> RequestOf(rec).command, argv |-> <<>>])

\* C10 as stated: a call of an allow-listed command whose program cannot be
\* started returns success = false, exit code 1, an error field with the
\* process-start error.
C10_StartFailureReported ==
    \A c \in CallIds :
        (call[c].pc = "resolved" /\ call[c].via \notin ValidationReturns
           /\ CannotStart(call[c]))
        => /\ ResultOf(call[c]).success = FALSE
           /\ ResultOf(call[c]).exitCode = 1
           /\ ResultOf(call[c]).error # None


ErrorOf(rec) == ResultOf(rec).error

\* The working directory of the request fails the third check: it resolves
\* outside the base directory, by string prefix or by path segments, or it
\* does not exist.
CwdFails(r) ==
    /\ r.cwd # None
    /\ Get(r.cwd) # <<>>
    /\ LET d == PathResolve(baseDirectory, Get(r.cwd))
       IN  \/ ~StartsWith(d, baseDirectory)
           \/ ~Within(d, baseDirectory)
           \/ d \notin ExistingPaths

\* C11: the checks run in the order command non-empty, command allow-listed,
\* working directory, and the first failure decides: an empty command returns
\* the no-command error and a non-empty command that is not allow-listed
\* returns the allow-list error, whatever the working directory; the error of
\* the working directory is returned only for a command that passed both
\* checks; a call that returns none of the three passed all of them.
C11_FirstFailureDecides ==
    [][\A c \in CallIds :
          Called(c)
          => LET r == RequestOf(call'[c])
                 inList == SetHas(allowedCommands, Basename(r.command))
                 wd == ValidateWorkingDirectory(r.cwd, baseDirectory)
             IN  /\ r.command = <<>>
                      => /\ call'[c].via = "noCommand"
                         /\ ErrorOf(call'[c]) = Some(NoCommandMessage)
                 /\ (r.command # <<>> /\ ~inList)
                      => /\ call'[c].via = "notAllowed"
                         /\ ErrorOf(call'[c])
                              = Some(NotAllowedMessage(r.command,
                                                       allowedCommands))
                 /\ (r.command # <<>> /\ inList /\ ~wd.ok)
                      => /\ call'[c].via = "workingDir"
                         /\ ErrorOf(call'[c]) = Some(wd.error)
                 /\ (r.command # <<>> /\ inList /\ wd.ok)
                      => call'[c].via \notin ValidationReturns
                 /\ call'[c].via \in ValidationReturns
                      => NoChild(call'[c]) /\ call'[c].pc = "resolved"]_vars

\* A request that fails the second and the third check (curl is not
\* allow-listed, the directory does not exist) got the allow-list error.
C11_Witness ==
    \E c \in CallIds :
        /\ Made(call[c])
        /\ RequestOf(call[c]).command = <<"curl">>
        /\ RequestOf(call[c]).cwd = Some(<<"missing">>)
        /\ CwdFails(RequestOf(call[c]))
        /\ call[c].via = "notAllowed"

\* C12 as stated: the timeout handed to the process runner is
\* min(requested, maximum) for every requested number, 0 included, and the
\* maximum when the request carries no timeout.
C12_TimeoutIsMin ==
    \A c \in CallIds :
        call[c].opts # None
        => Get(call[c].opts).timeout
             = IF RequestOf(call[c]).timeout = None THEN maxTimeout
               ELSE MathMin(Get(RequestOf(call[c]).timeout), maxTimeout)

\* The variables the request passes, none when it has no env argument.
Overrides(rec) ==
    IF RequestOf(rec).env = None THEN <<>> ELSE Get(RequestOf(rec).env)

\* C13: the environment handed to the child has exactly the keys of the base
\* environment and of the request's overrides, an override's value where the
\* request gives one and the base value elsewhere; the base environment is
\* the one captured at startup, whatever calls were made.
C13_EnvIsOverlay ==
    /\ shellEnvironment = [PATH |-> "/usr/bin", HOME |-> "/root"]
    /\ \A c \in CallIds :
          call[c].opts # None
          => LET e == Get(call[c].opts).env
                 o == Overrides(call[c])
             IN  /\ DOMAIN e = (DOMAIN shellEnvironment) \cup (DOMAIN o)
                 /\ \A k \in DOMAIN o : e[k] = o[k]
                 /\ \A k \in (DOMAIN shellEnvironment) \ (DOMAIN o) :
                       e[k] = shellEnvironment[k]

\* A child was spawned for a request that overrides PATH: it got the
\* request's PATH and the base environment's HOME.
C13_Witness ==
    \E c \in CallIds :
        /\ call[c].spawns > 0
        /\ call[c].opts # None
        /\ Overrides(call[c]) = [PATH |-> "/opt/bin"]
        /\ Get(call[c].opts).env = [PATH |-> "/opt/bin", HOME |-> "/root"]

\* C14 as stated: for every name n, a call of allow(n) leaves isAllowed(n)
\* true and a call of disallow(n) leaves it false, no other step changes the
\* allow-list, and an execute call is rejected by the allow-list check
\* exactly when isAllowed of its command is false in the state it is made in.
C14_AllowThenAllowed ==
    [][/\ \A n \in ListNames :
             /\ AllowCommand(n) => IsCommandAllowed(n, allowedCommands')
             /\ DisallowCommand(n) => ~IsCommandAllowed(n, allowedCommands')
       /\ allowedCommands' # allowedCommands
            => \E n \in ListNames : AllowCommand(n) \/ DisallowCommand(n)
       /\ \A c \in CallIds :
             (Called(c) /\ RequestOf(call'[c]).command # <<>>)
             => (call'[c].via = "notAllowed"
                   <=> ~IsCommandAllowed(RequestOf(call'[c]).command,
                                         allowedCommands))]_vars

NoDuplicates(list) ==
    \A i, j \in 1..Len(list) : list[i] = list[j] => i = j

\* list2 is list with one name, absent from list, added at the end.
Appended(list, list2) ==
    /\ Len(list2) = Len(list) + 1
    /\ SubSeq(list2, 1, Len(list)) = list
    /\ \A i \in 1..Len(list) : list[i] # list2[Len(list2)]

\* list2 is list with one entry taken out and the others in place.
Removed(list, list2) ==
    \E i \in 1..Len(list) :
        list2 = SubSeq(list, 1, i - 1) \o SubSeq(list, i + 1, Len(list))

\* C15: allow and disallow can always be called; allow(n) on a list that has
\* n and disallow(n) on a list that lacks n leave the list, members and
\* order, as it was; after either operation a second application of it
\* changes nothing; every change of the list adds one absent name at the end
\* or takes one entry out, and no name is listed twice.
C15_Idempotent ==
    /\ [](/\ NoDuplicates(allowedCommands)
          /\ \A n \in ListNames :
                ENABLED AllowCommand(n) /\ ENABLED DisallowCommand(n))
    /\ [][/\ \A n \in ListNames :
                /\ (AllowCommand(n) /\ SetHas(allowedCommands, n))
                     => allowedCommands' = allowedCommands
                /\ (DisallowCommand(n) /\ ~SetHas(allowedCommands, n))
                     => allowedCommands' = allowedCommands
                /\ AllowCommand(n)
                     => /\ SetHas(allowedCommands', n)
                        /\ SetAdd(allowedCommands', n) = allowedCommands'
                /\ DisallowCommand(n)
                     => /\ ~SetHas(allowedCommands', n)
                        /\ SetDelete(allowedCommands', n) = allowedCommands'
          /\ allowedCommands' # allowedCommands
               => \/ Appended(allowedCommands, allowedCommands')
                  \/ Removed(allowedCommands, allowedCommands')]_vars

\* The list after allow(curl) and disallow(ls): a state in which allow(curl)
\* and disallow(ls) are the repeated operations.
C15_Witness ==
    /\ allowedCommands # SeedCommands
    /\ SetHas(allowedCommands, <<"curl">>)
    /\ ~SetHas(allowedCommands, <<"ls">>)
    /\ ENABLED AllowCommand(<<"curl">>)
    /\ ENABLED DisallowCommand(<<"ls">>)

\* The call resolved from the 'close' event of a child that exited by itself
\* with code 0 and that the timeout callback never killed.
NormalZeroExit(rec) ==
    /\ rec.via = "close"
    /\ rec.exit = Some(0)
    /\ rec.kills = 0

\* C16: in every result, success is true exactly when the child exited with
\* code 0 and was not killed by the timeout, and exactly when the result's
\* exit code is 0; rejections, spawn failures, timeouts, exits with another
\* code and deaths by a signal (no exit code) give success = false and a
\* non-zero exit code.
C16_SuccessIffZeroExit ==
    \A c \in CallIds :
        call[c].result # None
        => LET v == ResultOf(call[c])
           IN  /\ v.success <=> NormalZeroExit(call[c])
               /\ v.success <=> v.exitCode = 0
               /\ call[c].via # "close" => ~v.success /\ v.exitCode # 0
               /\ (call[c].via = "close" /\ call[c].exit = None)
                    => ~v.success /\ v.exitCode # 0

\* A child that died by a signal was reported by 'close' with a null code.
C16_Witness ==
    \E c \in CallIds :
        /\ call[c].result # None
        /\ call[c].via = "close"
        /\ call[c].exit = None
        /\ ResultOf(call[c]).exitCode = 1

\* C17 as stated: every result with success = false has its error field
\* populated, the result of a child that exited with a non-zero code
\* included.
C17_FailureHasError ==
    \A c \in CallIds :
        (call[c].result # None /\ ~ResultOf(call[c]).success)
        => ResultOf(call[c]).error # None

\* C18 as stated: once a call has returned, the child it spawned is no
\* longer running.
C18_NoChildOutlivesCall ==
    \A c \in CallIds :
        (call[c].pc = "resolved" /\ call[c].spawns > 0)
        => call[c].child # "running"

\* C19 as stated: a call whose requested directory resolves inside the base
\* directory, by path segments, and does not exist fails with the not-found
\* error naming the resolved path and spawns no child.
C19_MissingDirNotFound ==
    \A c \in CallIds :
        (Made(call[c]) /\ CommandAccepted(call[c]) /\ CwdGiven(call[c])
           /\ Within(RequestedDir(call[c]), baseDirectory)
           /\ RequestedDir(call[c]) \notin ExistingPaths)
        => /\ call[c].via = "workingDir"
           /\ ResultOf(call[c]).success = FALSE
           /\ ErrorOf(call[c]) = Some(NotFoundMessage(RequestedDir(call[c])))
           /\ NoChild(call[c])

ResponseOf(rec) == Get(rec.response)

\* C20: the handler answers every result; a success becomes the standard
\* output with isError false; a failure becomes isError true with "Error: "
\* and standard error when that is not empty, else the error field when the
\* result has one, else "Unknown error"; isError is the negation of success.
C20_ResponseRendersResult ==
    \A c \in CallIds :
        call[c].result # None
        => /\ call[c].response # None
           /\ LET v == ResultOf(call[c])
                  p == ResponseOf(call[c])
              IN  /\ p.isError <=> ~v.success
                  /\ v.success => p.text = v.stdout
                  /\ (~v.success /\ v.stderr # <<>>)
                       => p.text = <<"Error: ">> \o v.stderr
                  /\ (~v.success /\ v.stderr = <<>> /\ v.error # None)
                       => p.text = <<"Error: ">> \o Get(v.error)
                  /\ (~v.success /\ v.stderr = <<>> /\ v.error = None)
                       => p.text = <<"Error: ", "Unknown error">>

\* A timed-out call, whose result has a standard-error text that differs
\* from its error field, was answered with the standard-error text.
C20_Witness ==
    \E c \in CallIds :
        /\ call[c].via = "timeout"
        /\ call[c].response # None
        /\ ResultOf(call[c]).error # Some(ResultOf(call[c]).stderr)
        /\ ResponseOf(call[c]).isError
        /\ ResponseOf(call[c]).text
             = <<"Error: ">> \o ResultOf(call[c]).stderr

\* C21: getAllowedCommands can always be called; the array it returns holds
\* the members of the allow-list at the time of the call, each once, in
\* their insertion order; the call leaves the allow-list as it was, and so
\* does whatever the caller does to the array afterwards: the allow-list
\* changes only by one absent name added at its end or one entry taken out.
C21_ListIsCopy ==
    /\ [](ENABLED GetAllowedCommandsCall)
    /\ [][/\ GetAllowedCommandsCall
               => /\ Get(listed').arr = allowedCommands
                  /\ NoDuplicates(Get(listed').arr)
                  /\ \A n \in ListNames :
                        SetHas(Get(listed').arr, n)
                          <=> SetHas(allowedCommands, n)
                  /\ allowedCommands' = allowedCommands
          /\ (listed # None /\ listed' # None
                /\ Get(listed').arr # Get(listed).arr
                /\ Get(listed').arr # allowedCommands)
               => allowedCommands' = allowedCommands
          /\ allowedCommands' # allowedCommands
               => \/ Appended(allowedCommands, allowedCommands')
                  \/ Removed(allowedCommands, allowedCommands')]_vars

\* A caller emptied the array it was returned and the allow-list still has
\* its members, curl, added before the call, among them.
C21_Witness ==
    /\ listed # None
    /\ Get(listed).arr = <<>>
    /\ SetHas(allowedCommands, <<"curl">>)
    /\ Len(allowedCommands) = Len(SeedCommands) + 1

\* C22 as stated: of the calls of checkRateLimit that returned, no two fall
\* within the same 1000 ms: any two are at least the window apart.
C22_OnePerSecond ==
    \A i, j \in 1..Len(admitted) :
        i < j => admitted[j] - admitted[i] >= WindowMs

SearchOutcome == Get(search.outcome)

\* C28 as stated: a local search whose first request was answered with
\* success and without a location id, and whose requests the API all
\* answered with success, asks the web search for the same query and returns
\* the formatted results of that web search.
C28_FallbackReturnsWebResults ==
    (search.tool = "local" /\ search.fallback /\ ~search.apiFailed)
    => /\ search.pc = "web"
            => /\ search.fetch # None
               /\ Get(search.fetch).q = search.query
               /\ Get(search.fetch).filter = "none"
       /\ search.pc \in {"web", "done"}
       /\ search.pc = "done"
            => /\ ~SearchOutcome.threw
               /\ search.webData # None
               /\ SearchOutcome.value = FormatWebResults(Get(search.webData))

\* C29 as stated: a local search whose first request was answered with at
\* least one location id, and whose requests the API all answered with
\* success, sends the request for the POI details and the request for the
\* descriptions, both in flight together, and returns the formatted local
\* results.
C29_DetailsFetchedInParallel ==
    (search.tool = "local" /\ search.ids # <<>> /\ ~search.apiFailed)
    => /\ search.pois \in {"pending", "ok"}
       /\ search.desc \in {"pending", "ok"}
       /\ search.pc = "done"
            => /\ ~SearchOutcome.threw
               /\ search.poisData # None /\ search.descData # None
               /\ SearchOutcome.value
                    = FormatLocalResults(Get(search.poisData),
                                         Get(search.descData))

\* C23: a running call gets its result from the first of the events close,
\* error and timer expiry, and the result is that event's: the exit code
\* reported with close, the error message, or the timeout result; from then
\* on, until the call slot is used again, no event changes the result or
\* the answer given to the client, and no kill is sent.
C23_FirstEventDecides ==
    [][\A c \in CallIds :
          /\ (call[c].pc = "running" /\ call'[c].result # None)
               => LET v == ResultOf(call'[c])
                  IN  \/ /\ call[c].child \in {"exited", "errored"}
                         /\ call'[c].child = "closed"
                         /\ v.exitCode = IF call[c].exit = None THEN 1
                                         ELSE Get(call[c].exit)
                         /\ v.stdout = call[c].stdout
                         /\ v.error = None
                      \/ /\ call[c].child = "failed"
                         /\ call'[c].child = "errored"
                         /\ v.error = Some(SpawnErrorMessage)
                         /\ call'[c].kills = 0
                      \/ /\ call[c].timer = "pending"
                         /\ call'[c].timer = "fired"
                         /\ IsTimeoutResult(v)
                         /\ call'[c].kills = 1
          /\ (call[c].result # None /\ call'[c].pc # "idle")
               => /\ call'[c].result = call[c].result
                  /\ call'[c].response = call[c].response
                  /\ call'[c].kills = call[c].kills
                  /\ call'[c].timer # "pending"]_vars

\* The child of a timed-out call exited and was reported closed after the
\* call had returned, with output that arrived after the timeout; the
\* result is still the timeout result.
C23_Witness ==
    \E c \in CallIds :
        /\ call[c].via = "timeout"
        /\ call[c].child = "closed"
        /\ call[c].stdout # Get(call[c].seen).stdout
        /\ IsTimeoutResult(ResultOf(call[c]))
        /\ call[c].kills = 1

\* The three validations of executeCommand pass for the request r.
ValidationsPass(r) ==
    /\ r.command # <<>>
    /\ SetHas(allowedCommands, Basename(r.command))
    /\ ValidateWorkingDirectory(r.cwd, baseDirectory).ok

\* C24: a call calls spawn() once when its request passes the three
\* validations and never otherwise; a rejected call has no child; a call has
\* at most one child, none when spawn() failed; and as long as the call
\* lasts no event (a non-zero exit, a spawn error, a timeout, a close) adds
\* a spawn() call or a child.
C24_OneSpawnPerCall ==
    [][\A c \in CallIds :
          /\ Called(c)
               => /\ call'[c].attempts
                       = IF ValidationsPass(RequestOf(call'[c])) THEN 1 ELSE 0
                  /\ call'[c].spawns <= call'[c].attempts
                  /\ call'[c].via \in ValidationReturns
                       => call'[c].attempts = 0 /\ NoChild(call'[c])
                  /\ call'[c].spawns = 1
                       <=> call'[c].child = "running"
          /\ (call[c].pc # "idle" /\ call'[c].pc # "idle")
               => /\ call'[c].attempts = call[c].attempts
                  /\ call'[c].spawns = call[c].spawns
                  /\ call'[c].procs = call[c].procs]_vars

\* A call whose child exited with a non-zero code returned that result with
\* one spawn() call and one child.
C24_Witness ==
    \E c \in CallIds :
        /\ call[c].via = "close"
        /\ call[c].exit = Some(2)
        /\ call[c].attempts = 1
        /\ call[c].spawns = 1

\* The text of the chunks as the handlers decode them, one by one.
Decoded(chunks) ==
    Join([i \in 1..Len(chunks) |-> BufferToString(chunks[i])], <<>>)

\* C25: with two calls in progress, every step changes at most one call
\* record; the accumulators of a call hold the chunks its own child wrote;
\* and the result of a call is made of its own accumulators, the exit code
\* of its own child and its own timer.
C25_CallsIndependent ==
    [][\A c \in CallIds :
          /\ \A d \in CallIds \ {c} :
                call'[c] # call[c] => call'[d] = call[d]
          /\ call'[c].stdout = Decoded(call'[c].wrote.stdout)
          /\ call'[c].stderr = Decoded(call'[c].wrote.stderr)
          /\ (call[c].pc = "running" /\ call'[c].result # None)
               => LET v == ResultOf(call'[c])
                  IN  /\ v.stdout = Decoded(call[c].wrote.stdout)
                      /\ call'[c].via = "close"
                           => /\ v.stderr = Decoded(call[c].wrote.stderr)
                              /\ v.exitCode = IF call[c].exit = None THEN 1
                                              ELSE Get(call[c].exit)
                      /\ call'[c].via = "timeout"
                           => /\ call[c].timer = "pending"
                              /\ v.stderr
                                   = TimeoutStderr(Get(call[c].opts).timeout)]_vars

\* Both calls have returned, one with its child's output and exit code 0,
\* the other by its timeout of 1000 ms without output.
C25_Witness ==
    \E c, d \in CallIds :
        /\ c # d
        /\ call[c].via = "close"
        /\ ResultOf(call[c]).stdout = <<"out">>
        /\ ResultOf(call[c]).success
        /\ call[d].via = "timeout"
        /\ ResultOf(call[d]).stdout = <<>>
        /\ Get(call[d].opts).timeout = Num(1000)
        /\ Get(call[c].opts).timeout = Num(MaxTimeoutMs)

\* C26: no step changes the base directory, the maximum timeout or the base
\* environment; a step of a call (its start, an event of its child, its
\* timer, its return) leaves the allow-list as it is; the allow-list changes
\* only in a step of allowCommand or disallowCommand.
C26_ExecuteFrame ==
    [][/\ baseDirectory' = baseDirectory
       /\ maxTimeout' = maxTimeout
       /\ shellEnvironment' = shellEnvironment
       /\ (\E c \in CallIds : call'[c] # call[c])
            => allowedCommands' = allowedCommands
       /\ allowedCommands' # allowedCommands
            => /\ call' = call
               /\ \E n \in AdminNames :
                     \/ allowedCommands' = allowedCommands \o <<n>>
                     \/ /\ SetHas(allowedCommands, n)
                        /\ ~SetHas(allowedCommands', n)]_vars

\* A call with a timeout of 1000 ms has timed out, another call before it
\* was made while curl was allowed, and the maximum is still 60000 ms.
C26_Witness ==
    \E c \in CallIds :
        /\ call[c].via = "timeout"
        /\ RequestOf(call[c]).timeout = Some(Num(1000))
        /\ maxTimeout = Num(MaxTimeoutMs)
        /\ SetHas(allowedCommands, <<"curl">>)

\* The bytes of the chunks, one after the other.
Bytes(chunks) == Join(chunks, <<>>)

\* C27 as stated: the result of a call that ended by its child's exit has,
\* as standard output and as standard error, the text of all the bytes the
\* child wrote to that stream, in the order of their arrival.
C27_OutputIsConcatenation ==
    \A c \in CallIds :
        (call[c].result # None /\ call[c].via = "close")
        => /\ ResultOf(call[c]).stdout
                = BufferToString(Bytes(Get(call[c].seen).chunks.stdout))
           /\ ResultOf(call[c]).stderr
                = BufferToString(Bytes(Get(call[c].seen).chunks.stderr))

\* C30: the step in which a call begins is the step of its checks and of
\* its spawn() call, and it is a step of that call alone: a command that is
\* not in the allow-list when the call begins is rejected and not spawned, a
\* command that is in it and whose directory is valid is spawned in the same
\* step, and the step touches neither the allow-list nor the other call; a
\* step of allowCommand or disallowCommand changes no call, and the result a
\* running call gets afterwards is the one of its child or of its timer.
C30_CheckAndSpawnAtomic ==
    [][/\ \A c \in CallIds :
             /\ Called(c)
                  => LET r == RequestOf(call'[c])
                     IN  /\ ~SetHas(allowedCommands, Basename(r.command))
                              => /\ call'[c].via = "notAllowed"
                                 /\ call'[c].attempts = 0
                                 /\ NoChild(call'[c])
                         /\ ValidationsPass(r) => call'[c].attempts = 1
                         /\ allowedCommands' = allowedCommands
                         /\ \A d \in CallIds \ {c} : call'[d] = call[d]
             /\ (call[c].pc = "running" /\ call'[c].result # None)
                  => (ResultOf(call'[c]).success
                        <=> /\ call'[c].via = "close"
                            /\ call[c].exit = Some(0))
       /\ allowedCommands' # allowedCommands => call' = call]_vars

\* ls was disallowed after a call had spawned it; the call returned its
\* child's success, and the other call, begun after the disallow, was
\* rejected.
C30_Witness ==
    \E c, d \in CallIds :
        /\ c # d
        /\ ~SetHas(allowedCommands, <<"ls">>)
        /\ call[c].via = "close"
        /\ ResultOf(call[c]).success
        /\ call[d].via = "notAllowed"

=============================================================================
